---- MODULE Spec2Model ----
(***************************************************************************)
(* Model of lantern.py: the command codec and registry (CommandProtocol,   *)
(* Meta, BaseCommand and its subclasses), the frame reconstruction of      *)
(* CommandTransport over a stream that delivers bytes in arbitrary chunks, *)
(* and the connect / receive loop of LanternClient against the scripted    *)
(* LanternServer.                                                          *)
(*                                                                         *)
(* Five specifications share the variables:                                *)
(*   SpecCodec      encode / decode / register applied to drawn inputs     *)
(*   SpecTransport  a caller awaiting recv() repeatedly on one transport   *)
(*                  whose reader is fed a byte stream piece by piece       *)
(*   Spec           LanternClient.loop() against LanternServer             *)
(*   SpecLive       the same with the coroutines scheduled fairly          *)
(*   SpecServer     LanternServer with several clients connected at once   *)
(***************************************************************************)
EXTENDS Integers, Sequences, FiniteSets, TLC

\* ------------------------------------------------------------------ bounds

\* longest command script / number of frames put on one stream
MaxFrames == 2
\* number of recv() calls the test caller makes beyond the frames of the stream
ExtraRecv == 1
\* connection attempts of one client session (caps an unbounded session)
MaxAttempts == 2
\* longest command script of the server
MaxScript == 3
\* clients that connect to one server
MaxClients == 2

\* ------------------------------------------------------- program constants

COMMAND_HEADER_LENGTH == 3

\* the type attribute of each command class
TYPE_BASE == 0
TYPE_UNKNOWN == 153
TYPE_ON == 18
TYPE_OFF == 19
TYPE_COLOR == 32
\* the class the test suite defines (test_register)
TYPE_TEST == 152

\* ------------------------------------------------------------------ values

\* Python's None as a payload, and a bytes object as a payload
NoneValue == [present |-> FALSE, bytes |-> <<>>]
BytesValue(b) == [present |-> TRUE, bytes |-> b]

Take(s, k) == SubSeq(s, 1, k)
Drop(s, k) == SubSeq(s, k + 1, Len(s))

\* struct.pack of one unsigned big-endian integer into `width` bytes
RECURSIVE pack_uint(_, _)
pack_uint(x, width) ==
    IF width = 0 THEN <<>>
    ELSE pack_uint(x \div 256, width - 1) \o <<x % 256>>

\* struct.unpack of an unsigned big-endian integer
RECURSIVE unpack_uint(_)
unpack_uint(b) ==
    IF Len(b) = 0 THEN 0
    ELSE unpack_uint(Take(b, Len(b) - 1)) * 256 + b[Len(b)]

\* pack('<BH', ...): the length written little-endian
pack_BH_little_endian(type, length) ==
    pack_uint(type, 1) \o <<length % 256, length \div 256>>

\* pack('>BH', type, length)
pack_BH(type, length) == pack_uint(type, 1) \o pack_uint(length, 2)

\* unpack('>BH', buffer): defined for a buffer of exactly 3 bytes
unpack_BH(buffer) ==
    [type |-> unpack_uint(SubSeq(buffer, 1, 1)),
     length |-> unpack_uint(SubSeq(buffer, 2, 3))]

\* ---------------------------------------------------------------- commands

\* CommandTest is the class test_register defines; CommandTestB stands for any
\* further class that claims the same type byte
Classes ==
    {"BaseCommand", "CommandUnknown", "CommandOn", "CommandOff",
     "CommandColor", "CommandTest", "CommandTestB"}

\* the class attribute `type`
ClassType(cls) ==
    CASE cls = "BaseCommand"    -> TYPE_BASE
      [] cls = "CommandUnknown" -> TYPE_UNKNOWN
      [] cls = "CommandOn"      -> TYPE_ON
      [] cls = "CommandOff"     -> TYPE_OFF
      [] cls = "CommandColor"   -> TYPE_COLOR
      [] cls = "CommandTest"    -> TYPE_TEST
      [] cls = "CommandTestB"   -> TYPE_TEST

\* BaseCommand.__init__: no subclass overrides it, no payload shape is checked
NewCommand(cls, value) ==
    [type |-> ClassType(cls),
     length |-> IF value.present THEN Len(value.bytes) ELSE 0,
     value |-> value]

\* CommandColor.from_rgb
from_rgb(r, g, b) ==
    NewCommand("CommandColor",
               BytesValue(pack_uint(r, 1) \o pack_uint(g, 1) \o pack_uint(b, 1)))

\* recv() / decode() returning None
NoCommand == [type |-> -1, length |-> 0, value |-> NoneValue]
\* no recv() call of the transport has returned yet
NotYet == [type |-> -3, length |-> 0, value |-> NoneValue]
\* a call that ended by raising struct.error
StructError == [type |-> -2, length |-> 0, value |-> NoneValue]

\* BaseCommand.__eq__: equal hashes of (type, length, value); the hash of the
\* tuple is taken to separate different tuples
CommandEq(a, b) ==
    <<a.type, a.length, a.value>> = <<b.type, b.length, b.value>>

\* CommandProtocol.encode
encode(command) ==
    LET message == pack_BH(command.type, command.length)
    IN  IF command.length > 0 THEN message \o command.value.bytes ELSE message

\* decode that falls back to the base class for an unregistered type
decode_falls_back(reg, type_, value) ==
    IF type_ \notin DOMAIN reg THEN NewCommand("BaseCommand", value)
    ELSE NewCommand(reg[type_], value)

\* CommandProtocol.decode on a registry reg (type byte -> class)
decode(reg, type_, value) ==
    IF type_ \notin DOMAIN reg THEN NoCommand
    ELSE NewCommand(reg[type_], value)

\* CommandProtocol.register: the registry after the call, and whether it raised
register_raises(reg, cls) == ClassType(cls) \in DOMAIN reg

\* register that stores the class before it checks for a duplicate
register_overwrites(reg, cls) ==
    [t \in DOMAIN reg \cup {ClassType(cls)} |->
        IF t = ClassType(cls) THEN cls ELSE reg[t]]

register(reg, cls) ==
    IF register_raises(reg, cls) THEN reg
    ELSE [t \in DOMAIN reg \cup {ClassType(cls)} |->
            IF t = ClassType(cls) THEN cls ELSE reg[t]]

\* Meta.__new__ for each class statement of the module, in source order:
\* BaseCommand itself is created through Meta too
EmptyRegistry == [t \in {} |-> "BaseCommand"]

ImportedRegistry ==
    register(register(register(register(register(EmptyRegistry,
        "BaseCommand"), "CommandUnknown"), "CommandOn"), "CommandOff"),
        "CommandColor")

\* del CommandProtocol._registry[type] (the end-to-end test)
unregister(reg, type_) == [t \in DOMAIN reg \ {type_} |-> reg[t]]

\* ------------------------------------------------------------------- state

VARIABLES
    registry,       \* CommandProtocol._registry: type byte -> class
    reg_error,      \* whether the last register() call raised ValueError
    cmd,            \* codec harness: the command handed to encode
    message,        \* codec harness: the bytes encode returned
    decoded,        \* codec harness: what decode returned for that message
    pending,        \* bytes the peer of the test stream has still to write
    wire,           \* the reader: bytes written by the peer and not yet read
    eof,            \* the reader: the peer has closed the stream
    read_buffer,    \* CommandTransport._read_buffer
    read_so_far,    \* _retry_read: read_so_far
    n,              \* _retry_read: its argument n
    rpc,            \* where the current recv() call is
    result,         \* what the recv() call returned (or that it raised)
    reader,         \* the class of the transport's reader
    zero_read,      \* history: a read() of the recv() call under way returned
                    \* nothing while the stream was not at end-of-stream
    frames,         \* test stream: the commands whose encodings it is made of
    stream,         \* test stream: all the bytes the peer writes before closing
    results,        \* test caller: what its recv() calls returned, in order
    running,        \* LanternClient._running
    num_connections_to_process,     \* LanternClient._num_connections_to_process
    cpc,            \* where LanternClient.loop() is
    attempts,       \* history: connection attempts made by the session
    handled,        \* history: commands passed to the callback on this connection
    limit,          \* history: the num_connections_to_process the session was made with
    opened,         \* history: connections the session has opened
    late_calls,     \* history: callback calls made after the stop signal
    server,         \* LanternServer.run_forever: not started, listening or stopped
    num_connections_to_serve,       \* LanternServer._num_connections_to_serve
    script,         \* LanternServer._commands
    sidx,           \* _handle_server: commands of the script already sent
    spc,            \* where _handle_server is for the current connection
    sent,           \* history: commands written in full on this connection
    handlers        \* the _handle_server coroutines of a server with several clients

codecVars == <<cmd, message, decoded>>
registryVars == <<registry, reg_error>>
streamVars == <<pending, wire, eof>>
transportVars == <<read_buffer, read_so_far, n, rpc, result, reader, zero_read>>
callerVars == <<frames, stream, results>>
historyVars == <<limit, opened, late_calls>>
clientVars ==
    <<running, num_connections_to_process, cpc, attempts, handled, historyVars>>
serverVars ==
    <<server, num_connections_to_serve, script, sidx, spc, sent, handlers>>

vars ==
    <<registry, reg_error, cmd, message, decoded, pending, wire, eof,
      read_buffer, read_so_far, n, rpc, result, reader, zero_read,
      frames, stream, results,
      running, num_connections_to_process, cpc, attempts, handled,
      limit, opened, late_calls,
      server, num_connections_to_serve, script, sidx, spc, sent, handlers>>

\* num_connections_to_process=None, num_connections_to_serve=None
NoBound == -1

\* the parts of the state a specification does not use, as they are before use
IdleCodec == cmd = NoCommand /\ message = <<>> /\ decoded = NoCommand
IdleStream == pending = <<>> /\ wire = <<>> /\ eof = FALSE
IdleTransport ==
    /\ read_buffer = <<>> /\ read_so_far = <<>> /\ n = 0
    /\ rpc = "idle" /\ result = NotYet
    /\ reader = "StreamReader" /\ zero_read = FALSE
IdleCaller == frames = <<>> /\ stream = <<>> /\ results = <<>>
IdleClient ==
    /\ running = TRUE /\ num_connections_to_process = NoBound
    /\ cpc = "loop" /\ attempts = 0 /\ handled = <<>>
    /\ limit = NoBound /\ opened = 0 /\ late_calls = 0
\* the connections clients may open to one server
Connections == 1 .. MaxClients
\* no client has connected
NoHandlers == [c \in Connections |-> [pc |-> "none", out |-> <<>>]]

IdleServer ==
    /\ server = "down" /\ num_connections_to_serve = NoBound
    /\ script = <<>> /\ sidx = 0 /\ spc = "none" /\ sent = <<>>
    /\ handlers = NoHandlers

\* ------------------------------------------------------------ the transport

\* the reader's at_eof(): nothing left to read and the peer has closed
\* (DefaultReader: the data is depleted)
at_eof == eof /\ wire = <<>>

\* a transport that asks for the whole length again after a short read
bytes_missing_whole(required_length) ==
    IF Len(read_buffer) >= required_length THEN 0 ELSE required_length
\* CommandTransport._bytes_missing
bytes_missing(required_length) == required_length - Len(read_buffer)

\* the header of the frame being reconstructed: type_, length of _process_buffer
header == unpack_BH(Take(read_buffer, COMMAND_HEADER_LENGTH))

\* `return x` of recv() / _process_buffer()
Return(x) ==
    /\ rpc' = "returned"
    /\ result' = x

\* entering _retry_read(k)
CallRetryRead(k, where) ==
    /\ rpc' = where
    /\ n' = k
    /\ read_so_far' = <<>>
    /\ UNCHANGED <<read_buffer, result>>

\* recv(): the loop that waits for the header
RecvHeader ==
    /\ rpc = "recv"
    /\ IF bytes_missing(COMMAND_HEADER_LENGTH) > 0
       THEN IF at_eof
            THEN Return(NoCommand) /\ UNCHANGED <<read_buffer, read_so_far, n>>
            ELSE CallRetryRead(bytes_missing(COMMAND_HEADER_LENGTH), "read_header")
       ELSE /\ rpc' = "process"
            /\ UNCHANGED <<read_buffer, read_so_far, n, result>>
    /\ UNCHANGED <<reader, zero_read>>
    /\ UNCHANGED <<streamVars, registryVars, codecVars, callerVars, clientVars, serverVars>>

\* where _retry_read returns to
AfterRead == IF rpc = "read_header" THEN "recv" ELSE "body"

\* _retry_read that tests at_eof() before it keeps the bytes just read
RetryReadGot_eof_first(k) ==
    LET got == read_so_far \o Take(wire, k)
        rest == Drop(wire, k)
    IN  /\ wire' = rest
        /\ IF eof /\ rest = <<>>
           THEN /\ read_buffer' = read_buffer \o read_so_far
                /\ read_so_far' = <<>>
                /\ rpc' = AfterRead
           ELSE IF Len(got) >= n
                THEN /\ read_buffer' = read_buffer \o got
                     /\ read_so_far' = <<>>
                     /\ rpc' = AfterRead
                ELSE /\ read_so_far' = got
                     /\ UNCHANGED <<read_buffer, rpc>>
        /\ zero_read' = (zero_read \/ (k = 0 /\ ~at_eof))

\* what one iteration of _retry_read does with the k bytes read() returned:
\* it returns when the stream is at eof or n bytes are collected (after the
\* sleep), else it reads again
RetryReadGot(k) ==
    LET got == read_so_far \o Take(wire, k)
        rest == Drop(wire, k)
    IN  /\ wire' = rest
        /\ IF (eof /\ rest = <<>>) \/ Len(got) >= n
           THEN /\ read_buffer' = read_buffer \o got
                /\ read_so_far' = <<>>
                /\ rpc' = AfterRead
           ELSE /\ read_so_far' = got
                /\ UNCHANGED <<read_buffer, rpc>>
        /\ zero_read' = (zero_read \/ (k = 0 /\ ~at_eof))

Min(a, b) == IF a < b THEN a ELSE b

\* the sizes reader.read(k) may return. DefaultReader gives the k bytes asked
\* for, or what there is; OneByteAtATimeReader gives one byte; a stream reader
\* gives any part of what has arrived, at most k bytes
ReadSizes(k) ==
    CASE reader = "DefaultReader" -> {Min(k, Len(wire))}
      [] reader = "OneByteAtATimeReader" -> {Min(1, Len(wire))}
      [] reader = "StreamReader" -> 0 .. Min(k, Len(wire))

\* _retry_read: one read() of the missing bytes
RetryRead ==
    /\ rpc \in {"read_header", "read_body"}
    /\ \E k \in ReadSizes(n - Len(read_so_far)) : RetryReadGot(k)
    /\ UNCHANGED <<n, result, reader, pending, eof>>
    /\ UNCHANGED <<registryVars, codecVars, callerVars, clientVars, serverVars>>

\* _process_buffer: unpack('>BH', buffer) raises struct.error unless the
\* buffer holds exactly 3 bytes
ProcessBuffer ==
    /\ rpc = "process"
    /\ IF Len(read_buffer) # COMMAND_HEADER_LENGTH
       THEN Return(StructError)
       ELSE rpc' = "body" /\ UNCHANGED result
    /\ UNCHANGED <<read_buffer, read_so_far, n, reader, zero_read>>
    /\ UNCHANGED <<streamVars, registryVars, codecVars, callerVars, clientVars, serverVars>>

\* a payload that is an empty bytes object, not None, for a zero-length frame
PayloadOf_never_none(buffer, length) ==
    BytesValue(SubSeq(buffer, COMMAND_HEADER_LENGTH + 1,
                      COMMAND_HEADER_LENGTH + length))

\* the payload handed to decode: None for a zero-length frame
PayloadOf(buffer, length) ==
    IF length > 0
    THEN BytesValue(SubSeq(buffer, COMMAND_HEADER_LENGTH + 1,
                           COMMAND_HEADER_LENGTH + length))
    ELSE NoneValue

\* a buffer advanced past the header only
ConsumeFrame_header_only(buffer, length) == Drop(buffer, COMMAND_HEADER_LENGTH)

\* the buffer once the frame is taken off its front
ConsumeFrame(buffer, length) == Drop(buffer, length + COMMAND_HEADER_LENGTH)

\* _process_buffer that leaves its loop at end-of-stream and decodes what it has
ProcessBody_decodes_at_eof ==
    /\ rpc = "body"
    /\ IF /\ header.length > 0
          /\ bytes_missing(header.length + COMMAND_HEADER_LENGTH) > 0
          /\ ~at_eof
       THEN CallRetryRead(
                bytes_missing(header.length + COMMAND_HEADER_LENGTH), "read_body")
       ELSE /\ read_buffer' = ConsumeFrame(read_buffer, header.length)
            /\ Return(decode(registry, header.type,
                             BytesValue(Drop(read_buffer, COMMAND_HEADER_LENGTH))))
            /\ UNCHANGED <<read_so_far, n>>
    /\ UNCHANGED <<reader, zero_read>>
    /\ UNCHANGED <<streamVars, registryVars, codecVars, callerVars, clientVars, serverVars>>

\* _process_buffer after the header: wait for the payload, cut the frame off
\* the buffer, decode it
ProcessBody ==
    /\ rpc = "body"
    /\ IF header.length > 0 /\ bytes_missing(header.length + COMMAND_HEADER_LENGTH) > 0
       THEN IF at_eof
            THEN Return(NoCommand) /\ UNCHANGED <<read_buffer, read_so_far, n>>
            ELSE CallRetryRead(
                    bytes_missing(header.length + COMMAND_HEADER_LENGTH), "read_body")
       ELSE /\ read_buffer' = ConsumeFrame(read_buffer, header.length)
            /\ Return(decode(registry, header.type,
                             PayloadOf(read_buffer, header.length)))
            /\ UNCHANGED <<read_so_far, n>>
    /\ UNCHANGED <<reader, zero_read>>
    /\ UNCHANGED <<streamVars, registryVars, codecVars, callerVars, clientVars, serverVars>>

\* the steps of a recv() call in progress
RecvStep == RecvHeader \/ RetryRead \/ ProcessBuffer \/ ProcessBody

\* ---------------------------------------------------------- drawn inputs

CommandOn == NewCommand("CommandOn", NoneValue)
CommandOff == NewCommand("CommandOff", NoneValue)
CommandUnknown == NewCommand("CommandUnknown", NoneValue)
\* a command of a class the receiving side has not registered, with a payload
CommandTest(payload) == NewCommand("CommandTest", BytesValue(payload))

\* the sequences over S of length at most k
SeqsUpTo(S, k) == UNION {[1 .. i -> S] : i \in 0 .. k}

\* the encodings of a list of commands written back to back
RECURSIVE EncodeAll(_)
EncodeAll(cs) ==
    IF cs = <<>> THEN <<>> ELSE encode(Head(cs)) \o EncodeAll(Tail(cs))

\* ------------------------------------------------- SpecCodec: the codec alone

ByteSamples == {0, 1, 2, 3, 255}
PayloadLengths == {1, 2, 255, 256, 257, 65535}

\* a payload of the given length
Fill(length) == [i \in 1 .. length |-> i % 256]

CodecCommands ==
    {CommandOn, CommandOff, CommandUnknown, NewCommand("BaseCommand", NoneValue)}
    \cup {from_rgb(r, g, b) : r \in ByteSamples, g \in ByteSamples, b \in ByteSamples}
    \cup {CommandTest(Fill(l)) : l \in PayloadLengths}

InitCodec ==
    /\ registry = ImportedRegistry
    /\ reg_error = FALSE
    /\ cmd \in CodecCommands
    /\ message = <<>> /\ decoded = NoCommand
    /\ IdleStream /\ IdleTransport /\ IdleCaller /\ IdleClient /\ IdleServer

\* message = CommandProtocol.encode(cmd)
Encode ==
    /\ message = <<>>
    /\ message' = encode(cmd)
    /\ UNCHANGED <<cmd, decoded, registryVars, streamVars, transportVars,
                   callerVars, clientVars, serverVars>>

\* decoded = CommandProtocol.decode(type, payload) of the encoded message, the
\* payload of a zero-length frame being None
Decode ==
    /\ message # <<>>
    /\ LET h == unpack_BH(Take(message, COMMAND_HEADER_LENGTH))
       IN  decoded' = decode(registry, h.type, PayloadOf(message, h.length))
    /\ UNCHANGED <<cmd, message, registryVars, streamVars, transportVars,
                   callerVars, clientVars, serverVars>>

\* CommandProtocol.register(cls), also as called by Meta.__new__ for a class
\* statement
Register(cls) ==
    /\ reg_error' = register_raises(registry, cls)
    /\ registry' = register(registry, cls)
    /\ UNCHANGED <<codecVars, streamVars, transportVars, callerVars,
                   clientVars, serverVars>>

\* del CommandProtocol._registry[CommandUnknown.type]
Unregister ==
    /\ TYPE_UNKNOWN \in DOMAIN registry
    /\ registry' = unregister(registry, TYPE_UNKNOWN)
    /\ reg_error' = FALSE
    /\ UNCHANGED <<codecVars, streamVars, transportVars, callerVars,
                   clientVars, serverVars>>

NextCodec ==
    \/ Encode
    \/ Decode
    \/ \E cls \in Classes : Register(cls)
    \/ Unregister

SpecCodec == InitCodec /\ [][NextCodec]_vars

\* ------------------------------- SpecTransport: recv() awaited by a test

\* the commands the test streams are made of, built as the program builds
\* them: the payload is None or a non-empty bytes object (a command built with
\* an empty bytes object encodes like one built with None and is not equal to it)
TransportCommands ==
    {CommandOn, CommandOff, from_rgb(10, 20, 30), CommandUnknown,
     CommandTest(<<7, 8>>)}

\* the byte streams made of the encodings of cs, the last one possibly cut
\* short after at least one of its bytes
StreamsOf(cs) ==
    IF cs = <<>> THEN {<<>>}
    ELSE LET all == EncodeAll(cs)
             last == Len(encode(cs[Len(cs)]))
         IN  {Take(all, Len(all) - cut) : cut \in 0 .. last - 1}

\* a fresh transport over a reader nothing has been fed to; the registry is the
\* imported one, or the one the end-to-end test leaves (CommandUnknown removed)
InitTransport ==
    /\ registry \in {ImportedRegistry, unregister(ImportedRegistry, TYPE_UNKNOWN)}
    /\ reg_error = FALSE
    /\ IdleCodec
    /\ frames \in SeqsUpTo(TransportCommands, MaxFrames)
    /\ stream \in StreamsOf(frames)
    /\ pending = stream /\ wire = <<>> /\ eof = FALSE
    /\ read_buffer = <<>> /\ read_so_far = <<>> /\ n = 0
    /\ rpc = "idle" /\ result = NotYet
    /\ reader \in {"DefaultReader", "OneByteAtATimeReader", "StreamReader"}
    /\ zero_read = FALSE
    /\ results = <<>>
    /\ IdleClient /\ IdleServer

\* the peer writes the next k bytes of the stream
Feed ==
    /\ pending # <<>>
    /\ \E k \in 1 .. Len(pending) :
         /\ wire' = wire \o Take(pending, k)
         /\ pending' = Drop(pending, k)
    /\ UNCHANGED <<eof, registryVars, codecVars, transportVars, callerVars,
                   clientVars, serverVars>>

\* the peer closes the stream after its last byte
CloseStream ==
    /\ pending = <<>>
    /\ ~eof
    /\ eof' = TRUE
    /\ UNCHANGED <<pending, wire, registryVars, codecVars, transportVars,
                   callerVars, clientVars, serverVars>>

\* the caller awaits transport.recv()
CallRecv ==
    /\ rpc = "idle"
    /\ Len(results) < Len(frames) + ExtraRecv
    /\ rpc' = "recv"
    /\ UNCHANGED <<read_buffer, read_so_far, n, result, reader, zero_read>>
    /\ UNCHANGED <<streamVars, registryVars, codecVars, callerVars, clientVars, serverVars>>

\* the awaited call is over: the caller keeps its outcome
RecvDone ==
    /\ rpc = "returned"
    /\ results' = Append(results, result)
    /\ rpc' = "idle"
    /\ zero_read' = FALSE
    /\ UNCHANGED <<frames, stream>>
    /\ UNCHANGED <<read_buffer, read_so_far, n, result, reader>>
    /\ UNCHANGED <<streamVars, registryVars, codecVars, clientVars, serverVars>>

NextTransport ==
    \/ Feed
    \/ CloseStream
    \/ CallRecv
    \/ RecvHeader
    \/ RetryRead
    \/ ProcessBuffer
    \/ ProcessBody
    \/ RecvDone

SpecTransport == InitTransport /\ [][NextTransport]_vars

\* ------------------------------- Spec: LanternClient.loop and LanternServer

\* a Color frame whose payload is not 3 bytes long
MalformedColor == NewCommand("CommandColor", BytesValue(<<1, 2>>))

\* the commands the server scripts are made of; CommandUnknown is a zero-length
\* command of registered type on a client with the imported registry, and of
\* unregistered type on a client whose registry lacks it
SessionCommands == {from_rgb(10, 20, 30), CommandUnknown, MalformedColor}

Init ==
    /\ registry \in {ImportedRegistry, unregister(ImportedRegistry, TYPE_UNKNOWN)}
    /\ reg_error = FALSE
    /\ IdleCodec /\ IdleStream /\ IdleTransport /\ IdleCaller
    /\ running = TRUE
    /\ num_connections_to_process \in {NoBound, 0, 1}
    /\ limit = num_connections_to_process /\ opened = 0 /\ late_calls = 0
    /\ cpc = "loop" /\ attempts = 0 /\ handled = <<>>
    /\ server = "down"
    /\ num_connections_to_serve \in {NoBound, 1}
    /\ script \in SeqsUpTo(SessionCommands, MaxScript)
    /\ sidx = 0 /\ spc = "none" /\ sent = <<>>
    /\ handlers = NoHandlers

\* a bound on connections counted down by one; None stays None
CountDown(count) == IF count = NoBound THEN NoBound ELSE count - 1

\* loop(): `while self._running:`
LoopTop ==
    /\ cpc = "loop"
    /\ cpc' = IF running THEN "connect" ELSE "stopped"
    /\ UNCHANGED <<running, num_connections_to_process, attempts, handled, historyVars>>
    /\ UNCHANGED <<registryVars, codecVars, streamVars, transportVars, callerVars, serverVars>>

\* a _connect() loop that goes on attempting when the count is used up
MayConnect_ignores_count == running
\* a _connect() loop that goes on attempting after the stop signal
MayConnect_ignores_running == num_connections_to_process # 0
\* the loop condition of _connect()
MayConnect == running /\ num_connections_to_process # 0

\* _connect(): `while self._running and self._num_connections_to_process != 0:`
\* starts a connection attempt, else returns None and loop() breaks
ConnectTry ==
    /\ cpc = "connect"
    /\ IF MayConnect
       THEN /\ attempts < MaxAttempts
            /\ attempts' = attempts + 1
            /\ cpc' = "connecting"
       ELSE /\ cpc' = "stopped"
            /\ UNCHANGED attempts
    /\ UNCHANGED <<running, num_connections_to_process, handled, historyVars>>
    /\ UNCHANGED <<registryVars, codecVars, streamVars, transportVars, callerVars, serverVars>>

\* asyncio.open_connection succeeds: the bound is counted down, a new
\* CommandTransport is built, and the server starts _handle_server for it
ConnectAccepted ==
    /\ cpc = "connecting"
    /\ server = "listening"
    /\ num_connections_to_process' = CountDown(num_connections_to_process)
    /\ cpc' = "connected"
    /\ opened' = opened + 1
    /\ handled' = <<>>
    /\ read_buffer' = <<>> /\ read_so_far' = <<>> /\ n' = 0
    /\ rpc' = "idle" /\ result' = NotYet
    /\ zero_read' = FALSE
    /\ wire' = <<>> /\ eof' = FALSE
    /\ spc' = "send" /\ sidx' = 0 /\ sent' = <<>>
    /\ UNCHANGED <<running, attempts, limit, late_calls>>
    /\ UNCHANGED <<pending, reader, server, num_connections_to_serve, script, handlers>>
    /\ UNCHANGED <<registryVars, codecVars, callerVars>>

\* a ConnectionRefusedError escaping _connect() and loop()
AfterRefused_uncaught == "crashed"
\* _connect(): `except ConnectionRefusedError` logs and sleeps
AfterRefused == "backoff"

\* asyncio.open_connection raises ConnectionRefusedError: sleep RECONNECT_DELAY
ConnectRefused ==
    /\ cpc = "connecting"
    /\ server # "listening"
    /\ cpc' = AfterRefused
    /\ UNCHANGED <<running, num_connections_to_process, attempts, handled, historyVars>>
    /\ UNCHANGED <<registryVars, codecVars, streamVars, transportVars, callerVars, serverVars>>

\* the reconnect sleep is over
Backoff ==
    /\ cpc = "backoff"
    /\ cpc' = "connect"
    /\ UNCHANGED <<running, num_connections_to_process, attempts, handled, historyVars>>
    /\ UNCHANGED <<registryVars, codecVars, streamVars, transportVars, callerVars, serverVars>>

\* a receive loop that goes on after the stop signal
MayReceive_ignores_running == ~at_eof
\* a receive loop that goes on at end-of-stream
MayReceive_ignores_eof == running
\* the condition of the inner loop of loop()
MayReceive == running /\ ~at_eof

\* loop(): `while self._running and not transport.at_eof():` awaits recv(),
\* else logs 'Server disconnected' and goes round the outer loop
ReceiveLoop ==
    /\ cpc = "connected"
    /\ IF MayReceive
       THEN cpc' = "receiving" /\ rpc' = "recv"
       ELSE cpc' = "loop" /\ UNCHANGED rpc
    /\ UNCHANGED <<read_buffer, read_so_far, n, result, reader, zero_read>>
    /\ UNCHANGED <<running, num_connections_to_process, attempts, handled, historyVars>>
    /\ UNCHANGED <<registryVars, codecVars, streamVars, callerVars, serverVars>>

\* an exception of the callback escaping loop()
AfterCallback_uncaught(raises) == IF raises THEN "crashed" ELSE "connected"

\* loop(): `except Exception` around the callback: logged, the loop goes on
AfterCallback(raises) == "connected"

\* a receive loop that ends the connection on `command is None`
AfterNoCommand_break == "loop"

\* loop(): `if command is not None:` is false: nothing is called, the loop
\* goes on
AfterNoCommand == "connected"

\* Lantern.on_command, the callback of simple_client: CommandColor.rgb unpacks
\* the payload with '>BBB', which raises struct.error unless it is 3 bytes long
CallbackRaises(command) == command.type = TYPE_COLOR /\ command.length # 3

\* loop(): recv() has returned; a command is passed to the callback
HandleCommand ==
    /\ cpc = "receiving"
    /\ rpc = "returned"
    /\ rpc' = "idle"
    /\ zero_read' = FALSE
    /\ IF result = StructError
       THEN cpc' = "crashed" /\ UNCHANGED <<handled, late_calls>>
       ELSE IF result # NoCommand
            THEN /\ handled' = Append(handled, result)
                 /\ late_calls' = IF running THEN late_calls ELSE late_calls + 1
                 /\ cpc' = AfterCallback(CallbackRaises(result))
            ELSE cpc' = AfterNoCommand /\ UNCHANGED <<handled, late_calls>>
    /\ UNCHANGED <<read_buffer, read_so_far, n, result, reader>>
    /\ UNCHANGED <<running, num_connections_to_process, attempts, limit, opened>>
    /\ UNCHANGED <<registryVars, codecVars, streamVars, callerVars, serverVars>>

\* handle_interrupt(), run by the event loop on SIGTERM / SIGINT
HandleInterrupt ==
    /\ cpc \notin {"stopped", "crashed"}
    /\ running
    /\ running' = FALSE
    /\ UNCHANGED <<num_connections_to_process, cpc, attempts, handled, historyVars>>
    /\ UNCHANGED <<registryVars, codecVars, streamVars, transportVars, callerVars, serverVars>>

\* run_forever(): the server starts listening
ServerStart ==
    /\ server = "down"
    /\ server' = "listening"
    /\ UNCHANGED <<num_connections_to_serve, script, sidx, spc, sent, handlers>>
    /\ UNCHANGED <<registryVars, codecVars, streamVars, transportVars, callerVars, clientVars>>

\* _handle_server: transport.send(command) of the next command of the script
HandlerSend ==
    /\ spc = "send"
    /\ sidx < Len(script)
    /\ wire' = wire \o encode(script[sidx + 1])
    /\ sidx' = sidx + 1
    /\ sent' = Append(sent, script[sidx + 1])
    /\ UNCHANGED <<pending, eof, server, num_connections_to_serve, script, spc, handlers>>
    /\ UNCHANGED <<registryVars, codecVars, transportVars, callerVars, clientVars>>

\* _handle_server after the last command: writer.close(), the bound counted
\* down, the event loop stopped when it reaches 0
HandlerClose ==
    /\ spc = "send"
    /\ sidx = Len(script)
    /\ eof' = TRUE
    /\ spc' = "done"
    /\ num_connections_to_serve' = CountDown(num_connections_to_serve)
    /\ server' = IF num_connections_to_serve' = 0 THEN "stopped" ELSE server
    /\ UNCHANGED <<pending, wire, script, sidx, sent, handlers>>
    /\ UNCHANGED <<registryVars, codecVars, transportVars, callerVars, clientVars>>

\* where a frame is cut: after its first byte, after its header, before its
\* last byte
DropPoints(frame) ==
    {1, COMMAND_HEADER_LENGTH, Len(frame) - 1} \cap (1 .. Len(frame) - 1)

\* the connection ends while a frame is under way: only the first k bytes of
\* the next command reach the client before end-of-stream
PeerDrop ==
    /\ spc = "send"
    /\ sidx < Len(script)
    /\ \E k \in DropPoints(encode(script[sidx + 1])) :
         wire' = wire \o Take(encode(script[sidx + 1]), k)
    /\ eof' = TRUE
    /\ spc' = "dropped"
    /\ UNCHANGED <<pending, server, num_connections_to_serve, script, sidx, sent, handlers>>
    /\ UNCHANGED <<registryVars, codecVars, transportVars, callerVars, clientVars>>

Next ==
    \/ LoopTop
    \/ ConnectTry
    \/ ConnectAccepted
    \/ ConnectRefused
    \/ Backoff
    \/ ReceiveLoop
    \/ RecvHeader
    \/ RetryRead
    \/ ProcessBuffer
    \/ ProcessBody
    \/ HandleCommand
    \/ HandleInterrupt
    \/ ServerStart
    \/ HandlerSend
    \/ HandlerClose
    \/ PeerDrop

Spec == Init /\ [][Next]_vars

\* the steps of the coroutine LanternClient.loop
ClientStep ==
    \/ LoopTop
    \/ ConnectTry
    \/ ConnectAccepted
    \/ ConnectRefused
    \/ Backoff
    \/ ReceiveLoop
    \/ RecvHeader
    \/ RetryRead
    \/ ProcessBuffer
    \/ ProcessBody
    \/ HandleCommand
\* the steps of the coroutine LanternServer._handle_server
PeerStep == HandlerSend \/ HandlerClose

\* the event loops run every coroutine that is ready: a client that can take a
\* step takes one, and the peer goes on to the end of its script and closes
LiveCommands == {from_rgb(10, 20, 30), CommandUnknown}
\* as Init, with the registry of test_client_server (Unknown deleted) and
\* scripts of a command the callback is called for and one recv() drops
InitLive ==
    /\ Init
    /\ registry = unregister(ImportedRegistry, TYPE_UNKNOWN)
    /\ script \in SeqsUpTo(LiveCommands, MaxScript)
SpecLive ==
    InitLive /\ [][Next]_vars /\ WF_vars(ClientStep) /\ WF_vars(PeerStep)

\* ------------------------------------------------------ claims: the codec

\* C6: round trip. Decoding the type byte and the payload of encode(c), the
\* payload of a zero-length frame passed as None, gives a command equal to c
\* whenever c's type is registered.
C6_RoundTrip ==
    [][(Decode /\ cmd.type \in DOMAIN registry) => CommandEq(decoded', cmd)]_vars

C6_Witness ==
    /\ cmd = from_rgb(255, 0, 1)
    /\ message = <<TYPE_COLOR, 0, 3, 255, 0, 1>>
    /\ decoded = cmd

\* C7: encode layout. The message is 3 + L bytes: the type, L div 256, L mod
\* 256, then the L payload bytes unchanged; nothing follows the header of a
\* zero-length command.
C7_EncodeLayout ==
    message # <<>> =>
        /\ Len(message) = COMMAND_HEADER_LENGTH + cmd.length
        /\ message[1] = cmd.type
        /\ message[2] = cmd.length \div 256
        /\ message[3] = cmd.length % 256
        /\ \A i \in 1 .. cmd.length :
             message[COMMAND_HEADER_LENGTH + i] = cmd.value.bytes[i]
        /\ (cmd = CommandOn => message = <<18, 0, 0>>)
        /\ (cmd = CommandOff => message = <<19, 0, 0>>)
        /\ (cmd = from_rgb(1, 2, 3) => message = <<32, 0, 3, 1, 2, 3>>)

C7_Witness ==
    /\ cmd.length = 257
    /\ Len(message) = 260
    /\ message[2] = 1 /\ message[3] = 1

\* C8: a register call for a type byte that is already registered raises and
\* leaves the registry as it was: the type still maps to the class registered
\* first.
C8_DuplicateRegistration ==
    [][\A cls \in Classes :
         (Register(cls) /\ ClassType(cls) \in DOMAIN registry)
            => (reg_error' /\ registry' = registry)]_vars

C8_Witness ==
    /\ reg_error
    /\ TYPE_TEST \in DOMAIN registry
    /\ registry[TYPE_TEST] = "CommandTest"

\* ------------------------------------- the server with several connections

ServerCommands == {CommandOn, CommandOff}

\* LanternServer(host, port, loop, num_connections_to_serve, commands) on its
\* own, with clients that connect while others are being served
InitServer ==
    /\ registry = ImportedRegistry
    /\ reg_error = FALSE
    /\ IdleCodec /\ IdleStream /\ IdleTransport /\ IdleCaller /\ IdleClient
    /\ server = "down"
    /\ num_connections_to_serve \in {NoBound, 1, 2}
    /\ script \in SeqsUpTo(ServerCommands, MaxScript)
    /\ sidx = 0 /\ spc = "none" /\ sent = <<>>
    /\ handlers = NoHandlers

ServerUnchanged ==
    /\ UNCHANGED <<script, sidx, spc, sent>>
    /\ UNCHANGED <<registryVars, codecVars, streamVars, transportVars, callerVars, clientVars>>

\* start_server's callback: a client has connected and _handle_server is
\* started for it; nothing is tested before it starts
HandleServer(c) ==
    /\ server = "listening"
    /\ handlers[c].pc = "none"
    /\ handlers' = [handlers EXCEPT ![c].pc = "send"]
    /\ UNCHANGED <<server, num_connections_to_serve>>
    /\ ServerUnchanged

\* _handle_server: transport.send(command), then `await asyncio.sleep(1.0)`
HandleServerSend(c) ==
    /\ handlers[c].pc = "send"
    /\ Len(handlers[c].out) < Len(script)
    /\ handlers' =
         [handlers EXCEPT ![c].out = Append(@, script[Len(@) + 1])]
    /\ UNCHANGED <<server, num_connections_to_serve>>
    /\ ServerUnchanged

\* what loop.stop() does to the handlers still in their send loop: the loop
\* returns from run_forever() and they are never resumed
Stopped(hs) ==
    [c \in Connections |->
        IF hs[c].pc = "send" THEN [hs[c] EXCEPT !.pc = "abandoned"] ELSE hs[c]]

\* _handle_server after the loop: writer.close(), then the bound is counted
\* down and at 0 self._loop.stop() ends run_forever()
HandleServerClose(c) ==
    /\ handlers[c].pc = "send"
    /\ Len(handlers[c].out) = Len(script)
    /\ num_connections_to_serve' = CountDown(num_connections_to_serve)
    /\ IF num_connections_to_serve' = 0
       THEN /\ server' = "stopped"
            /\ handlers' = Stopped([handlers EXCEPT ![c].pc = "closed"])
       ELSE /\ UNCHANGED server
            /\ handlers' = [handlers EXCEPT ![c].pc = "closed"]
    /\ ServerUnchanged

NextServer ==
    \/ ServerStart
    \/ \E c \in Connections : HandleServer(c)
    \/ \E c \in Connections : HandleServerSend(c)
    \/ \E c \in Connections : HandleServerClose(c)

SpecServer == InitServer /\ [][NextServer]_vars

\* --------------------------------------------------- claims: the transport

\* the stream holds every frame in full
Whole == stream = EncodeAll(frames)
\* the frames of the stream that are there in full
NumComplete == IF Whole THEN Len(frames) ELSE Len(frames) - 1
Registered(c) == c.type \in DOMAIN registry
\* the bytes of the stream that no recv() has consumed yet
Unconsumed == read_buffer \o wire \o pending

\* C1: partial delivery. Whatever the sizes in which the bytes of one frame
\* encode(c) reach the reader and are returned by read(), recv() returns a
\* command equal to c.
C1_PartialDelivery ==
    (Len(frames) = 1 /\ Whole /\ Registered(frames[1])) =>
        /\ (results # <<>> => CommandEq(results[1], frames[1]))
        /\ (rpc = "returned" /\ results = <<>> => CommandEq(result, frames[1]))

C1_Witness ==
    /\ frames = <<from_rgb(10, 20, 30)>>
    /\ Whole
    /\ reader = "OneByteAtATimeReader"
    /\ rpc = "returned" /\ results = <<>>
    /\ result = from_rgb(10, 20, 30)
    /\ zero_read

\* C2: sequencing. On a stream made of the whole encodings of registered
\* commands c1..cn, the i-th recv() returns ci, and the recv() after the n-th
\* returns no command.
C2_Sequencing ==
    (Whole /\ \A i \in 1 .. Len(frames) : Registered(frames[i])) =>
        \A i \in 1 .. Len(results) :
            /\ (i <= Len(frames) => CommandEq(results[i], frames[i]))
            /\ (i = Len(frames) + 1 => results[i] = NoCommand)

C2_Witness ==
    /\ Len(frames) >= 2
    /\ frames[1] # frames[2]
    /\ Whole
    /\ results = frames \o <<NoCommand>>
    /\ reader = "OneByteAtATimeReader"

\* C3: truncation. When the stream ends inside a frame (inside its header, or
\* inside the payload its header announces), the recv() that meets the cut
\* returns no command, and the stream is at end-of-stream once it has returned.
C3_Truncation ==
    (frames # <<>> /\ ~Whole) =>
        /\ (Len(results) >= Len(frames) =>
              results[Len(frames)] = NoCommand /\ at_eof)
        /\ (rpc = "returned" /\ Len(results) = Len(frames) - 1 =>
              result = NoCommand /\ at_eof)

C3_Witness ==
    /\ frames = <<CommandOn, from_rgb(10, 20, 30)>>
    /\ stream = <<TYPE_ON, 0, 0, TYPE_COLOR, 0, 3, 10, 20>>
    /\ results = <<CommandOn, NoCommand>>
    /\ read_buffer = <<TYPE_COLOR, 0, 3, 10, 20>>
    /\ reader = "StreamReader"

\* C5: a frame of unregistered type is consumed. recv() returns no command for
\* it, takes exactly its 3 + L bytes off the stream, and the next recv()
\* decodes the frame that follows.
C5_UnknownConsumed ==
    \A i \in 1 .. Len(results) :
        (i <= NumComplete /\ ~Registered(frames[i])) =>
            /\ results[i] = NoCommand
            /\ (i = Len(results) /\ rpc = "idle" =>
                  Unconsumed = Drop(stream, Len(EncodeAll(Take(frames, i)))))
            /\ (i + 1 <= Len(results) /\ i + 1 <= NumComplete
                    /\ Registered(frames[i + 1]) =>
                  CommandEq(results[i + 1], frames[i + 1]))

C5_Witness ==
    /\ frames = <<CommandTest(<<7, 8>>), from_rgb(10, 20, 30)>>
    /\ Whole
    /\ results = <<NoCommand, from_rgb(10, 20, 30)>>

\* ----------------------------------------------------- claims: the session

IsPrefix(a, b) == Len(a) <= Len(b) /\ a = Take(b, Len(a))
\* the commands of cs whose type the client has registered
RegisteredOnly(cs) == SelectSeq(cs, Registered)
\* loop() is outside the receive loop of the connection (it has left it, or has
\* returned) and no stop signal was given
LeftReceiveLoop == running /\ cpc \notin {"connected", "receiving"}
\* a callback call of this connection raised
Raised == \E i \in 1 .. Len(handled) : CallbackRaises(handled[i])

\* C4: end-to-end delivery. The callback is called once for each frame of
\* registered type the server wrote in full, in the order sent, and for nothing
\* else (no unregistered frame, no frame cut short): what it has seen is at all
\* times a prefix of the registered frames sent, and all of them once the
\* session, not told to stop, has left the connection's receive loop.
C4_EndToEnd ==
    spc # "none" =>
        /\ IsPrefix(handled, RegisteredOnly(sent))
        /\ (LeftReceiveLoop =>
              spc \in {"done", "dropped"} /\ handled = RegisteredOnly(sent))

C4_Witness ==
    /\ TYPE_UNKNOWN \notin DOMAIN registry
    /\ sent = <<from_rgb(10, 20, 30), CommandUnknown, from_rgb(10, 20, 30)>>
    /\ handled = <<from_rgb(10, 20, 30), from_rgb(10, 20, 30)>>
    /\ LeftReceiveLoop

\* C9: handler failure isolation. After a callback call has raised, loop() has
\* not been left by the exception and has not ended the session (it stops only
\* on the stop signal or with the connection bound used up), and the later
\* registered frames of the connection are still passed to the callback, in
\* order, before the session goes on to its next connection attempt.
C9_HandlerFailureIsolated ==
    Raised =>
        /\ cpc # "crashed"
        /\ (cpc = "stopped" => ~running \/ num_connections_to_process = 0)
        /\ IsPrefix(handled, RegisteredOnly(sent))
        /\ (LeftReceiveLoop => handled = RegisteredOnly(sent))

C9_Witness ==
    /\ handled = <<MalformedColor, from_rgb(10, 20, 30), CommandUnknown>>
    /\ cpc = "connecting"
    /\ attempts = 2
    /\ running

\* C10: a Color frame whose payload is not 3 bytes long ends recv() in an
\* error: recv() returns no command built from it and none reaches the
\* callback.
C10_MalformedPayloadRejected ==
    /\ (rpc = "returned" => ~CallbackRaises(result))
    /\ \A i \in 1 .. Len(handled) : ~CallbackRaises(handled[i])

\* C11: a connection attempt starts only while running is true and the
\* remaining count is not 0; a session made with bound N opens at most N
\* connections, the count goes down by one with each connection opened and
\* never below 0, and a session with bound 0 makes no attempt at all.
C11_NoAttemptWithoutPermission ==
    /\ [](limit # NoBound =>
            /\ num_connections_to_process >= 0
            /\ opened + num_connections_to_process = limit
            /\ opened <= limit)
    /\ [](limit = NoBound => num_connections_to_process = NoBound)
    /\ [](limit = 0 => attempts = 0 /\ cpc \in {"loop", "connect", "stopped"})
    /\ [][attempts' # attempts =>
            running /\ num_connections_to_process # 0]_vars
    /\ [][opened' # opened =>
            /\ opened' = opened + 1
            /\ num_connections_to_process' = CountDown(num_connections_to_process)]_vars
C11_Witness ==
    /\ limit = 1 /\ opened = 1 /\ num_connections_to_process = 0
    /\ attempts = 2 /\ running /\ cpc = "stopped"

\* C12: once the stream is at end-of-stream every recv returns "no command"
\* and none raises, the first call and the calls after it, whatever is left
\* in the read buffer: nothing, part of a header, or a header and part of
\* its payload.
C12_RecvAfterEofIsQuiet ==
    /\ result # StructError
    /\ \A i \in 1..Len(results) :
          /\ results[i] # StructError
          /\ i > NumComplete => results[i] = NoCommand

InReceiveLoop == cpc \in {"connected", "receiving"}

\* C13 as stated: on a connection the session calls recv until a recv returns
\* "no command" or it is told to stop; after a recv that returned "no command"
\* it makes no further recv call on that connection and goes to Disconnected.
C13_NoRecvAfterNoCommand ==
    [][(cpc = "connected" /\ result = NoCommand) => cpc' # "receiving"]_vars

\* C13 amended: on a connection the session calls recv until the stream is at
\* end-of-stream or it is told to stop, and leaves the receive loop for no
\* other reason; a recv that returned "no command" for an unregistered frame
\* does not end the loop; after a recv that returned "no command" with the
\* stream at end-of-stream no further recv call is made on that connection
\* and the session goes to Disconnected.
C13_ReceiveLoopEndsAtEof ==
    [][/\ (cpc = "connected" /\ cpc' = "receiving") => (running /\ ~at_eof)
       /\ (InReceiveLoop /\ ~InReceiveLoop') =>
             (cpc = "connected" /\ cpc' = "loop" /\ (~running \/ at_eof))
       /\ (cpc = "connected" /\ result = NoCommand /\ at_eof) =>
             cpc' \in {"connected", "loop"}]_vars
C13_Witness ==
    /\ cpc = "receiving" /\ rpc = "read_header" /\ running
    /\ result = NoCommand
    /\ sent = <<CommandUnknown, from_rgb(10, 20, 30)>>
    /\ handled = <<>>

\* the bytes the transport has taken from the stream and not yet consumed
Taken == read_buffer \o read_so_far
\* the recv() calls that have returned
Returned == IF rpc = "returned" THEN Len(results) + 1 ELSE Len(results)

C15_StopLatency ==
    /\ [](late_calls <= 1)
    /\ [](late_calls = 1 => ~running /\ cpc \in {"connected", "loop", "stopped"})
    /\ [][~running => ~running']_vars
C15_Witness ==
    /\ ~running /\ late_calls = 1 /\ cpc = "stopped"
    /\ sent = <<from_rgb(10, 20, 30), from_rgb(10, 20, 30)>>
    /\ handled = <<from_rgb(10, 20, 30)>>

\* C16: stop eventually returns control. Once the stop signal is given, with
\* a peer that completes the frame under way or ends the stream, the session
\* reaches Stopped (loop() returns); and Stopped is terminal: no step of the
\* session follows.
C16_StopReturnsControl ==
    /\ (~running) ~> (cpc = "stopped")
    /\ [][cpc = "stopped" => UNCHANGED <<clientVars, transportVars>>]_vars
C16_Witness ==
    /\ ~running /\ cpc = "stopped" /\ late_calls = 1
    /\ spc = "send" /\ sidx = 1 /\ Len(script) = 3

\* C17: a refused connection attempt is recoverable. It does not end the
\* session, is not propagated and does not use up the connection bound: the
\* session sleeps and tries again. So a session that is running with a bound
\* that is not 0, once the server accepts connections, reaches Connected (unless
\* it is told to stop first).
C17_RefusedIsRecoverable ==
    /\ [](cpc # "crashed")
    /\ [][(cpc = "connecting" /\ cpc' # cpc /\ server # "listening") =>
            /\ cpc' = "backoff"
            /\ UNCHANGED <<running, num_connections_to_process, opened>>]_vars
    /\ [][(cpc = "backoff" /\ cpc' # cpc) => cpc' = "connect"]_vars
    /\ (/\ cpc \in {"connect", "connecting", "backoff"}
        /\ running /\ num_connections_to_process # 0
        /\ server = "listening" /\ attempts < MaxAttempts)
         ~> (cpc = "connected" \/ ~running)
C17_Witness ==
    /\ cpc = "connected" /\ running
    /\ attempts = 2 /\ opened = 1
    /\ limit = 1 /\ num_connections_to_process = 0

\* the connections the server has started serving
Serving == {c \in Connections : handlers[c].pc # "none"}
\* the connections that are over: closed by the handler, or left behind by a
\* stopped event loop
Over == {c \in Connections : handlers[c].pc \in {"closed", "abandoned"}}

ServeBound ==
    num_connections_to_serve
        + Cardinality({c \in Connections : handlers[c].pc = "closed"})

\* C19: a server made with bound N starts serving at most N connections, also
\* when clients connect at the same time, and shuts down once N connections
\* were served; a server with no bound never shuts down on its own.
C19_ServeAtMostBound ==
    IF num_connections_to_serve = NoBound
    THEN server # "stopped"
    ELSE /\ Cardinality(Serving) <= ServeBound
         /\ num_connections_to_serve = 0 <=> server = "stopped"

\* the type bytes of the four command variants
VariantTypes == {TYPE_ON, TYPE_OFF, TYPE_COLOR, TYPE_UNKNOWN}

\* C20: once every command class is defined the registry maps exactly the
\* type bytes 0x12, 0x13, 0x20 and 0x99; a frame of any other type byte, 0x00
\* included, decodes to "no command".
C20_RegistryAfterStartup ==
    registry = ImportedRegistry =>
        /\ DOMAIN registry = VariantTypes
        /\ decoded # NoCommand => decoded.type \in VariantTypes
====
